---- MODULE Spec2Model ----
(***************************************************************************)
(* fastapi_toolsets.fixtures: the fixture registry, the dependency         *)
(* resolver (depth-first topological sort with cycle detection) and the    *)
(* load engine (one scoped transaction per fixture, three strategies).     *)
(***************************************************************************)
EXTENDS Integers, Sequences, FiniteSets, TLC

VARIABLES
    registry,   \* FixtureRegistry._fixtures: the fixtures in dict insertion order
    ret,        \* the last call that ended and what it returned or raised
    db,         \* the rows committed to storage
    session,    \* the caller's AsyncSession: its view of the rows, staged
                \* instances and open transactions
    call,       \* the locals of the load call in progress (pc = "idle": none)
    log         \* what the load call in progress has done so far, in order

\* ------------------------------------------------------------------ bounds

\* Longest depends_on list of a registered fixture.
MaxDeps == 2
\* Most names passed to one resolve_dependencies / load_fixtures call.
MaxNames == 2

\* ------------------------------------------------------------- vocabulary

\* Python's None.
None == "None"

\* Fixture names the application uses (a dependency on a name that is not
\* registered is an unregistered dependency).
Names == {"a", "b", "c"}
NameOrder == <<"a", "b", "c">>

\* Context values (class Context).
BASE == "base"
TESTING == "testing"

SeqsUpTo(S, n) == UNION {[1..k -> S] : k \in 0..n}
Range(s) == {s[i] : i \in 1..Len(s)}
IndexOf(s, x) == CHOOSE i \in 1..Len(s) : s[i] = x

\* A Fixture dataclass instance.
Fixture(name, func, depends_on, contexts) ==
    [name |-> name, func |-> func, depends_on |-> depends_on, contexts |-> contexts]

\* ---------------------------------------------------------------- registry

\* `name in self._fixtures`
Registered(reg, name) == \E i \in 1..Len(reg) : reg[i].name = name

\* A lookup that answers an unregistered name with an empty fixture.
get_or_empty(reg, name) ==
    IF ~Registered(reg, name)
    THEN [kind |-> "ok", value |-> Fixture(name, None, <<>>, {BASE}), name |-> None]
    ELSE [kind |-> "ok", value |-> reg[CHOOSE i \in 1..Len(reg) : reg[i].name = name],
          name |-> None]

\* FixtureRegistry.get: the fixture, or KeyError.
get(reg, name) ==
    IF ~Registered(reg, name)
    THEN [kind |-> "KeyError", value |-> None, name |-> name]
    ELSE [kind |-> "ok", value |-> reg[CHOOSE i \in 1..Len(reg) : reg[i].name = name],
          name |-> None]

\* A registration that keeps the entry a name already has.
register_keeps_first(reg, fn_name, fn, name, depends_on, contexts) ==
    LET fixture_name == IF name = None THEN fn_name ELSE name
        fixture == Fixture(fixture_name, fn,
                           IF depends_on = <<>> THEN <<>> ELSE depends_on,
                           IF contexts = {} THEN {BASE} ELSE contexts)
    IN IF Registered(reg, fixture_name) THEN reg ELSE Append(reg, fixture)

\* A registration that always files the fixture under the producer's own
\* identifier.
register_by_identifier(reg, fn_name, fn, name, depends_on, contexts) ==
    LET fixture == Fixture(fn_name, fn,
                           IF depends_on = <<>> THEN <<>> ELSE depends_on,
                           IF contexts = {} THEN {BASE} ELSE contexts)
    IN IF Registered(reg, fn_name)
       THEN [i \in 1..Len(reg) |-> IF reg[i].name = fn_name THEN fixture ELSE reg[i]]
       ELSE Append(reg, fixture)

\* FixtureRegistry.register(fn, name=..., depends_on=..., contexts=...): the
\* registry afterwards. A name already registered keeps its place in the dict.
\* An argument left out is None for `name`, and for `depends_on` and
\* `contexts` the empty list, which `or` treats as it treats None.
register(reg, fn_name, fn, name, depends_on, contexts) ==
    LET fixture_name == IF name = None THEN fn_name ELSE name
        fixture == Fixture(fixture_name, fn,
                           IF depends_on = <<>> THEN <<>> ELSE depends_on,
                           IF contexts = {} THEN {BASE} ELSE contexts)
    IN IF Registered(reg, fixture_name)
       THEN [i \in 1..Len(reg) |-> IF reg[i].name = fixture_name THEN fixture ELSE reg[i]]
       ELSE Append(reg, fixture)

\* The fixtures tagged with every requested context.
get_by_all_contexts(reg, contexts) ==
    SelectSeq(reg, LAMBDA f : contexts \subseteq f.contexts)

\* A selection in which every context implies the base fixtures.
get_by_context_with_base(reg, contexts) ==
    SelectSeq(reg, LAMBDA f : f.contexts \cap (contexts \cup {BASE}) # {})

\* FixtureRegistry.get_by_context(*contexts)
get_by_context(reg, contexts) ==
    SelectSeq(reg, LAMBDA f : f.contexts \cap contexts # {})

\* ---------------------------------------------------------------- resolver

\* The locals of one resolve_dependencies call: resolved, seen, visiting, and
\* the exception in flight, if any.
ResolveStart ==
    [resolved |-> <<>>, seen |-> {}, visiting |-> {}, kind |-> "ok", name |-> None]

RECURSIVE visit_lenient(_, _, _)
RECURSIVE visit_deps_lenient(_, _, _, _)
\* visit that takes a name in progress for one already resolved.
visit_deps_lenient(reg, deps, k, st) ==
    IF st.kind # "ok" \/ k > Len(deps) THEN st
    ELSE visit_deps_lenient(reg, deps, k + 1, visit_lenient(reg, deps[k], st))
visit_lenient(reg, name, st) ==
    IF st.kind # "ok" THEN st
    ELSE IF name \in Range(st.resolved) \/ name \in st.visiting THEN st
    ELSE LET g == get(reg, name)
             s1 == [st EXCEPT !.visiting = @ \cup {name}]
         IN IF g.kind # "ok"
            THEN [s1 EXCEPT !.kind = "KeyError", !.name = name]
            ELSE LET s2 == visit_deps_lenient(reg, g.value.depends_on, 1, s1)
                 IN IF s2.kind # "ok" THEN s2
                    ELSE [s2 EXCEPT !.visiting = @ \ {name},
                                    !.resolved = Append(@, name),
                                    !.seen = @ \cup {name}]

RECURSIVE visit_pre(_, _, _)
RECURSIVE visit_deps_pre(_, _, _, _)
\* visit with the append moved before the loop over depends_on (pre-order).
visit_deps_pre(reg, deps, k, st) ==
    IF st.kind # "ok" \/ k > Len(deps) THEN st
    ELSE visit_deps_pre(reg, deps, k + 1, visit_pre(reg, deps[k], st))
visit_pre(reg, name, st) ==
    IF st.kind # "ok" THEN st
    ELSE IF name \in Range(st.resolved) THEN st
    ELSE IF name \in st.visiting
    THEN [st EXCEPT !.kind = "ValueError", !.name = name]
    ELSE LET g == get(reg, name)
             s1 == [st EXCEPT !.visiting = @ \cup {name},
                              !.resolved = Append(@, name)]
         IN IF g.kind # "ok"
            THEN [s1 EXCEPT !.kind = "KeyError", !.name = name]
            ELSE LET s2 == visit_deps_pre(reg, g.value.depends_on, 1, s1)
                 IN IF s2.kind # "ok" THEN s2
                    ELSE [s2 EXCEPT !.visiting = @ \ {name},
                                    !.seen = @ \cup {name}]

RECURSIVE visit(_, _, _)
RECURSIVE visit_deps(_, _, _, _)
\* `for dep in fixture.depends_on: visit(dep)`, from the k-th entry on; an
\* exception ends the loop.
visit_deps(reg, deps, k, st) ==
    IF st.kind # "ok" \/ k > Len(deps) THEN st
    ELSE visit_deps(reg, deps, k + 1, visit(reg, deps[k], st))
\* resolve_dependencies.visit
visit(reg, name, st) ==
    IF st.kind # "ok" THEN st
    ELSE IF name \in Range(st.resolved) THEN st
    ELSE IF name \in st.visiting
    THEN [st EXCEPT !.kind = "ValueError", !.name = name]
    ELSE LET g == get(reg, name)
             s1 == [st EXCEPT !.visiting = @ \cup {name}]
         IN IF g.kind # "ok"
            THEN [s1 EXCEPT !.kind = "KeyError", !.name = name]
            ELSE LET s2 == visit_deps(reg, g.value.depends_on, 1, s1)
                 IN IF s2.kind # "ok" THEN s2
                    ELSE [s2 EXCEPT !.visiting = @ \ {name},
                                    !.resolved = Append(@, name),
                                    !.seen = @ \cup {name}]

\* A resolution that first checks every registered fixture.
resolve_checks_registry(reg, names) ==
    LET every == visit_deps(reg, [i \in 1..Len(reg) |-> reg[i].name], 1, ResolveStart)
        st == visit_deps(reg, names, 1, ResolveStart)
    IN IF every.kind # "ok"
       THEN [kind |-> every.kind, value |-> None, name |-> every.name]
       ELSE IF st.kind = "ok"
       THEN [kind |-> "ok", value |-> st.resolved, name |-> None]
       ELSE [kind |-> st.kind, value |-> None, name |-> st.name]

\* The requested names visited from the last to the first.
resolve_names_reversed(reg, names) ==
    LET st == visit_deps(reg, [i \in 1..Len(names) |-> names[Len(names) + 1 - i]],
                         1, ResolveStart)
    IN IF st.kind = "ok"
       THEN [kind |-> "ok", value |-> st.resolved, name |-> None]
       ELSE [kind |-> st.kind, value |-> None, name |-> st.name]

\* FixtureRegistry.resolve_dependencies(*names): the list `resolved`, or the
\* exception raised with the name it carries.
resolve_dependencies(reg, names) ==
    LET st == visit_deps(reg, names, 1, ResolveStart)
    IN IF st.kind = "ok"
       THEN [kind |-> "ok", value |-> st.resolved, name |-> None]
       ELSE [kind |-> st.kind, value |-> None, name |-> st.name]

RECURSIVE context_deps_from(_, _, _, _)
\* The loop of resolve_context_dependencies from the k-th fixture on:
\* all_deps, or the exception of the first resolve_dependencies that fails.
context_deps_from(reg, fixtures, k, all_deps) ==
    IF k > Len(fixtures) THEN [kind |-> "ok", value |-> all_deps, name |-> None]
    ELSE LET deps == resolve_dependencies(reg, <<fixtures[k].name>>)
         IN IF deps.kind # "ok" THEN deps
            ELSE context_deps_from(reg, fixtures, k + 1, all_deps \cup Range(deps.value))

\* The set all_deps that resolve_context_dependencies(*contexts) builds.
context_deps(reg, contexts) ==
    context_deps_from(reg, get_by_context(reg, contexts), 1, {})

\* The orders in which a set of names can be iterated (the iteration order of
\* a set of str is not fixed by the program).
Orders(S) ==
    {p \in [1..Cardinality(S) -> S] : \A i, j \in 1..Cardinality(S) : i # j => p[i] # p[j]}

\* Only the fixtures tagged with a requested context, as registered.
resolve_context_tagged_only(reg, contexts, order) ==
    LET tagged == get_by_context(reg, contexts)
    IN [kind |-> "ok", value |-> [i \in 1..Len(tagged) |-> tagged[i].name],
        name |-> None]

\* FixtureRegistry.resolve_context_dependencies(*contexts), with all_deps
\* iterated in `order`.
resolve_context_dependencies(reg, contexts, order) ==
    LET all_deps == context_deps(reg, contexts)
    IN IF all_deps.kind # "ok" THEN all_deps
       ELSE resolve_dependencies(reg, order)

\* ------------------------------------------------- the dependency relation

\* The depends_on entries of a name (none when it is not registered).
DepsOf(reg, n) ==
    IF Registered(reg, n) THEN Range(get(reg, n).value.depends_on) ELSE {}

RECURSIVE ReachIn(_, _, _)
ReachIn(reg, S, k) ==
    IF k = 0 THEN S
    ELSE ReachIn(reg, S \cup UNION {DepsOf(reg, n) : n \in S}, k - 1)
\* The names reachable from S along depends_on, S included.
Closure(reg, S) == ReachIn(reg, S, Cardinality(Names))
\* The transitive dependencies of n (n itself only when it lies on a cycle).
TransDeps(reg, n) == Closure(reg, DepsOf(reg, n))
\* A cycle (of one node or more) is reachable from S.
CycleReachable(reg, S) == \E n \in Closure(reg, S) : n \in TransDeps(reg, n)
\* Every name reachable from S is registered.
FullyRegistered(reg, S) == \A n \in Closure(reg, S) : Registered(reg, n)

\* ------------------------------------------------------------ registries

\* The depends_on lists tried: lists of distinct names, and lists that repeat
\* one name.
DepLists ==
    {d \in SeqsUpTo(Names, MaxDeps) :
        \/ \A i, j \in 1..Len(d) : i # j => d[i] # d[j]
        \/ \A i, j \in 1..Len(d) : d[i] = d[j]}
\* What a generated registry holds for a name it does not register.
Unregistered ==
    [registered |-> FALSE, func |-> None, depends_on |-> <<>>, contexts |-> {}]

\* The registry holding, in the order a, b, c, the names g registers.
RegistryOf(g) ==
    LET kept == SelectSeq(NameOrder, LAMBDA n : g[n].registered)
    IN [i \in 1..Len(kept) |->
            Fixture(kept[i], g[kept[i]].func, g[kept[i]].depends_on,
                    g[kept[i]].contexts)]

Registries ==
    {RegistryOf(g) :
        g \in {h \in [Names -> {Unregistered} \cup
                                [registered : {TRUE}, func : Names,
                                 depends_on : DepLists, contexts : {{BASE}}]] :
                  \A n \in Names : h[n].registered => h[n].func = n}}

\* ------------------------------------------------------------- producers

\* A model instance: its primary-key columns and its other field values.
Instance(k, v) == [pk |-> <<k>>, val |-> v]

\* A model instance with a two-column primary key.
Composite(k1, k2, v) == [pk |-> <<k1, k2>>, val |-> v]

\* Producers of entities with a composite key, some of whose instances leave
\* key components unset.
CompositeProducers ==
    [k1 |-> <<Composite("1", "1", "original"), Composite("1", None, "original")>>,
     k2 |-> <<Composite(None, "2", "original")>>,
     k3 |-> <<Composite(None, None, "original")>>,
     k4 |-> <<Composite("1", "1", "updated"), Composite("1", "2", "original")>>,
     k5 |-> <<Composite("1", "2", "original"), Composite(None, None, "original")>>,
     k6 |-> <<Composite("2", None, "original"), Composite("1", "1", "original")>>]

\* The producer functions the application defines. "a2" is a later
\* definition of "a": same identifier, changed field values and one more row;
\* "a_raises" is a definition of "a" whose body raises.
Funcs == {"a", "a2", "a_raises", "b", "c", "c2"}

\* fn.__name__
FuncName(fn) ==
    CASE fn = "a2" -> "a"
      [] fn = "a_raises" -> "a"
      [] fn = "c2" -> "c"
      [] OTHER -> fn

\* fixture.func() raises instead of returning.
Raises(fn) == fn = "a_raises"

\* list(fixture.func()): what calling the producer returns (nothing from a
\* producer that raises).
Produce(fn) ==
    CASE fn \in DOMAIN CompositeProducers -> CompositeProducers[fn]
      [] fn = "a" -> <<Instance("1", "original")>>
      [] fn = "a2" -> <<Instance("1", "updated"), Instance("2", "original")>>
      [] fn = "a_raises" -> <<>>
      [] fn = "b" -> <<Instance("2", "updated")>>
      [] fn = "c" -> <<>>
      [] fn = "c2" -> <<Instance("3", "original"), Instance("3", "updated")>>

\* ------------------------------------------------------------------ session

\* A session with no transaction open sees the committed rows.
CleanSession(rows) == [work |-> rows, new |-> <<>>, txs |-> <<>>]

HasKey(rows, pk) == \E r \in rows : r.pk = pk
RowOf(rows, pk) == CHOOSE r \in rows : r.pk = pk

RECURSIVE flush_from(_, _)
\* The INSERTs of a flush, from the k-th staged instance on: a row with an
\* unset key component violates the NOT NULL constraint of the key columns
\* (no column of the modelled tables has a default), and a row whose primary
\* key is taken violates the uniqueness constraint.
flush_from(s, k) ==
    IF k > Len(s.new) THEN [kind |-> "ok", session |-> [s EXCEPT !.new = <<>>]]
    ELSE IF \E c \in 1..Len(s.new[k].pk) : s.new[k].pk[c] = None
    THEN [kind |-> "IntegrityError", session |-> s]
    ELSE IF HasKey(s.work, s.new[k].pk)
    THEN [kind |-> "IntegrityError", session |-> s]
    ELSE flush_from([s EXCEPT !.work = @ \cup {s.new[k]}], k + 1)

\* session.flush()
session_flush(s) == flush_from(s, 1)

\* session.add(instance): staged, written by the next flush.
session_add(s, instance) == [s EXCEPT !.new = Append(@, instance)]

\* session.get(type(instance), pk): autoflush, then the row with that key.
session_get(s, pk) ==
    LET f == session_flush(s)
    IN IF f.kind # "ok"
       THEN [kind |-> f.kind, session |-> f.session, found |-> FALSE]
       ELSE [kind |-> "ok", session |-> f.session, found |-> HasKey(f.session.work, pk)]

\* session.merge(instance): the row with the instance's key takes the
\* instance's field values, or the instance is staged when there is none;
\* returns the reconciled entity.
session_merge(s, instance) ==
    LET g == session_get(s, instance.pk)
    IN IF g.kind # "ok"
       THEN [kind |-> g.kind, session |-> g.session, value |-> instance]
       ELSE IF g.found
       THEN [kind |-> "ok",
             session |-> [g.session EXCEPT
                 !.work = (@ \ {RowOf(@, instance.pk)}) \cup {instance}],
             value |-> instance]
       ELSE [kind |-> "ok", session |-> session_add(g.session, instance),
             value |-> instance]

\* The rows the session holds, written or staged.
Held(s) == s.work \cup Range(s.new)

\* session.in_transaction()
in_transaction(s) == s.txs # <<>>

\* Leaving a transaction by rollback: the session sees again what it saw
\* when the transaction began, and what was staged is dropped.
session_rollback(s) ==
    [work |-> s.txs[Len(s.txs)].snap, new |-> <<>>,
     txs |-> SubSeq(s.txs, 1, Len(s.txs) - 1)]

\* get_transaction(session).__aenter__: a savepoint when the session is in a
\* transaction, a transaction of its own otherwise.
get_transaction_enter(s, owner) ==
    [s EXCEPT !.txs = Append(@,
        [kind |-> IF in_transaction(s) THEN "savepoint" ELSE "root",
         owner |-> owner, snap |-> s.work])]

\* get_transaction(session).__aexit__ without an exception: flush, then
\* commit (release the savepoint); a failing flush rolls back and raises.
get_transaction_exit(s, rows) ==
    LET f == session_flush(s)
        top == s.txs[Len(s.txs)]
    IN IF f.kind # "ok"
       THEN [kind |-> f.kind, session |-> session_rollback(f.session), db |-> rows]
       ELSE [kind |-> "ok",
             session |-> [f.session EXCEPT !.txs = SubSeq(@, 1, Len(@) - 1)],
             db |-> IF top.kind = "root" THEN f.session.work ELSE rows]

\* ------------------------------------------------------------- load engine

INSERT == "insert"
MERGE == "merge"
SKIP_EXISTING == "skip_existing"
LoadStrategy == {INSERT, MERGE, SKIP_EXISTING}

\* No primary key: what _get_primary_key returns as None.
NoKey == <<>>

\* A key extraction that takes a composite key for set as soon as one of
\* its components is.
_get_primary_key_any_set(instance) ==
    IF Len(instance.pk) = 1
    THEN IF instance.pk[1] = None THEN NoKey ELSE instance.pk
    ELSE IF \E i \in 1..Len(instance.pk) : instance.pk[i] # None
    THEN instance.pk
    ELSE NoKey

\* _get_primary_key(instance)
_get_primary_key(instance) ==
    IF Len(instance.pk) = 1
    THEN IF instance.pk[1] = None THEN NoKey ELSE instance.pk
    ELSE IF \A i \in 1..Len(instance.pk) : instance.pk[i] # None
    THEN instance.pk
    ELSE NoKey

\* INSERT that writes over a row with the same key instead of adding one.
insert_upserts(s, instance) ==
    LET m == session_merge(s, instance)
    IN [kind |-> m.kind, session |-> m.session,
        loaded |-> IF m.kind = "ok" THEN <<instance>> ELSE <<>>]

\* `if strategy == LoadStrategy.INSERT:` branch of _load_ordered
insert_instance(s, instance) ==
    [kind |-> "ok", session |-> session_add(s, instance), loaded |-> <<instance>>]

\* MERGE that stages every instance for creation.
merge_adds(s, instance) ==
    [kind |-> "ok", session |-> session_add(s, instance), loaded |-> <<instance>>]

\* MERGE that records an entity only when it created the row.
merge_records_created(s, instance) ==
    LET m == session_merge(s, instance)
    IN [kind |-> m.kind, session |-> m.session,
        loaded |-> IF m.kind = "ok" /\ ~HasKey(Held(s), instance.pk)
                   THEN <<m.value>> ELSE <<>>]

\* `elif strategy == LoadStrategy.MERGE:` branch of _load_ordered
merge_instance(s, instance) ==
    LET m == session_merge(s, instance)
    IN [kind |-> m.kind, session |-> m.session,
        loaded |-> IF m.kind = "ok" THEN <<m.value>> ELSE <<>>]

\* SKIP_EXISTING that reconciles the row it finds with the instance.
skip_existing_overwrites(s, instance) ==
    LET m == session_merge(s, instance)
    IN [kind |-> m.kind, session |-> m.session,
        loaded |-> IF m.kind = "ok" THEN <<m.value>> ELSE <<>>]

\* SKIP_EXISTING that looks every instance up, whatever its key.
skip_existing_checks_always(s, instance) ==
    LET g == session_get(s, instance.pk)
    IN IF g.kind # "ok"
       THEN [kind |-> g.kind, session |-> g.session, loaded |-> <<>>]
       ELSE IF ~g.found
       THEN [kind |-> "ok", session |-> session_add(g.session, instance),
             loaded |-> <<instance>>]
       ELSE [kind |-> "ok", session |-> g.session, loaded |-> <<>>]

\* `elif strategy == LoadStrategy.SKIP_EXISTING:` branch of _load_ordered
skip_existing_instance(s, instance) ==
    LET pk == _get_primary_key(instance)
    IN IF pk # NoKey
       THEN LET g == session_get(s, pk)
            IN IF g.kind # "ok"
               THEN [kind |-> g.kind, session |-> g.session, loaded |-> <<>>]
               ELSE IF ~g.found
               THEN [kind |-> "ok", session |-> session_add(g.session, instance),
                     loaded |-> <<instance>>]
               ELSE [kind |-> "ok", session |-> g.session, loaded |-> <<>>]
       ELSE [kind |-> "ok", session |-> session_add(s, instance),
             loaded |-> <<instance>>]

\* The body of `for instance in instances` in _load_ordered: the session
\* afterwards, what is appended to `loaded`, or the exception raised.
apply_instance(strategy, s, instance) ==
    IF strategy = INSERT THEN insert_instance(s, instance)
    ELSE IF strategy = MERGE THEN merge_instance(s, instance)
    ELSE IF strategy = SKIP_EXISTING THEN skip_existing_instance(s, instance)
    ELSE [kind |-> "ok", session |-> s, loaded |-> <<>>]

\* The list walked from its end.
current_name_reversed(c) == c.ordered[Len(c.ordered) - c.idx + 1]

\* `for name in ordered_names`: the name of the pass the call is in.
current_name(c) == c.ordered[c.idx]

\* The fixture always begins a transaction of its own, committed to storage
\* when it ends.
enter_own_transaction(s) ==
    [s EXCEPT !.txs = Append(@, [kind |-> "root", owner |-> "engine", snap |-> s.work])]

\* A transaction for the fixture and a second one inside it.
enter_two_transactions(s) ==
    get_transaction_enter(get_transaction_enter(s, "engine"), "engine")

\* `async with get_transaction(session):` in _load_ordered, entered.
enter_fixture_transaction(s) == get_transaction_enter(s, "engine")

\* The fixture's writes are flushed but its transaction is left open.
exit_keep_open(s, rows) ==
    LET f == session_flush(s)
    IN IF f.kind # "ok"
       THEN [kind |-> f.kind, session |-> session_rollback(f.session), db |-> rows]
       ELSE [kind |-> "ok", session |-> f.session, db |-> rows]

\* The `async with` block of _load_ordered left without an exception.
exit_fixture_transaction(s, rows) == get_transaction_exit(s, rows)

\* The exception leaves the block without a rollback.
abort_without_rollback(s) == [s EXCEPT !.txs = SubSeq(@, 1, Len(@) - 1)]

\* The `async with` block of _load_ordered left by an exception.
abort_fixture_transaction(s) == session_rollback(s)

\* Only the requested names that resolve on their own are resolved; the
\* others are dropped without an error.
load_fixtures_order_lenient(reg, names) ==
    resolve_dependencies(reg,
        SelectSeq(names, LAMBDA n : resolve_dependencies(reg, <<n>>).kind = "ok"))

RECURSIVE resolve_each_from(_, _, _, _)
\* The orders of the names from the k-th on, each resolved on its own, one
\* after the other.
resolve_each_from(reg, names, k, out) ==
    IF k > Len(names) THEN [kind |-> "ok", value |-> out, name |-> None]
    ELSE LET r == resolve_dependencies(reg, <<names[k]>>)
         IN IF r.kind # "ok" THEN r
            ELSE resolve_each_from(reg, names, k + 1, out \o r.value)

\* Every requested name is resolved on its own and the orders are chained,
\* so a fixture reached twice is listed twice.
load_fixtures_order_each(reg, names) == resolve_each_from(reg, names, 1, <<>>)

\* `ordered = registry.resolve_dependencies(*names)` in load_fixtures
load_fixtures_order(reg, names) == resolve_dependencies(reg, names)

\* ---------------------------------------------------------------- actions

NoCall == [op |-> "none", args |-> <<>>, strategy |-> None, result |-> None]

Idle ==
    [pc |-> "idle", op |-> "none", args |-> <<>>, strategy |-> None,
     ordered |-> <<>>, idx |-> 0, name |-> None, instances |-> <<>>, i |-> 0,
     loaded |-> <<>>, results |-> <<>>]

Error(kind, name) == [kind |-> kind, value |-> None, name |-> name]

\* The exception is caught and the loop goes on with the next fixture.
RaiseAndContinue(kind, name) ==
    /\ ret' = ret
    /\ call' = [call EXCEPT !.pc = "fixture", !.idx = @ + 1]

\* The call in progress ends by raising.
Raise(kind, name) ==
    /\ ret' = [op |-> call.op, args |-> call.args, strategy |-> call.strategy,
               result |-> Error(kind, name)]
    /\ call' = Idle

\* registry.register(fn, name=name, depends_on=depends_on, contexts=contexts)
Register(fn, name, depends_on, contexts) ==
    /\ call.pc = "idle"
    /\ ret = NoCall
    /\ registry' = register(registry, FuncName(fn), fn, name, depends_on, contexts)
    /\ ret' = [op |-> "register", args |-> <<fn, name, depends_on, contexts>>,
               strategy |-> None, result |-> [kind |-> "ok", value |-> fn, name |-> None]]
    /\ UNCHANGED <<db, session, call, log>>

\* registry.get(name)
Get(name) ==
    /\ ret = NoCall
    /\ ret' = [op |-> "get", args |-> <<name>>, strategy |-> None,
               result |-> get(registry, name)]
    /\ UNCHANGED <<registry, db, session, call, log>>

\* registry.resolve_dependencies(*names)
ResolveDependencies(names) ==
    /\ ret = NoCall
    /\ ret' = [op |-> "resolve_dependencies", args |-> names, strategy |-> None,
               result |-> resolve_dependencies(registry, names)]
    /\ UNCHANGED <<registry, db, session, call, log>>

\* registry.get_by_context(*contexts): the arguments are collected in a set.
GetByContext(contexts) ==
    /\ ret = NoCall
    /\ ret' = [op |-> "get_by_context", args |-> contexts, strategy |-> None,
               result |-> [kind |-> "ok", value |-> get_by_context(registry, Range(contexts)),
                           name |-> None]]
    /\ UNCHANGED <<registry, db, session, call, log>>

\* registry.resolve_context_dependencies(*contexts)
ResolveContextDependencies(contexts) ==
    /\ ret = NoCall
    /\ LET all_deps == context_deps(registry, contexts)
       IN \E order \in (IF all_deps.kind = "ok" THEN Orders(all_deps.value) ELSE {<<>>}) :
              ret' = [op |-> "resolve_context_dependencies", args |-> contexts,
                      strategy |-> None,
                      result |-> resolve_context_dependencies(registry, contexts, order)]
    /\ UNCHANGED <<registry, db, session, call, log>>

\* The caller is done with what the last call returned or raised.
Return ==
    /\ ret # NoCall
    /\ ret' = NoCall
    /\ log' = <<>>
    /\ UNCHANGED <<registry, db, session, call>>

\* load_fixtures(session, registry, *names, strategy=strategy), to the call
\* of _load_ordered.
LoadFixtures(names, strategy) ==
    /\ call.pc = "idle"
    /\ ret = NoCall
    /\ log' = <<>>
    /\ LET r == load_fixtures_order(registry, names)
       IN IF r.kind # "ok"
          THEN /\ ret' = [op |-> "load_fixtures", args |-> names,
                          strategy |-> strategy, result |-> r]
               /\ call' = Idle
          ELSE /\ ret' = NoCall
               /\ call' = [Idle EXCEPT !.pc = "fixture", !.op = "load_fixtures",
                                       !.args = names, !.strategy = strategy,
                                       !.ordered = r.value, !.idx = 1]
    /\ UNCHANGED <<registry, db, session>>

\* load_fixtures_by_context(session, registry, *contexts, strategy=strategy),
\* to the call of _load_ordered.
LoadFixturesByContext(contexts, strategy) ==
    /\ call.pc = "idle"
    /\ ret = NoCall
    /\ log' = <<>>
    /\ LET all_deps == context_deps(registry, contexts)
       IN \E order \in (IF all_deps.kind = "ok" THEN Orders(all_deps.value) ELSE {<<>>}) :
           LET r == resolve_context_dependencies(registry, contexts, order)
           IN IF r.kind # "ok"
              THEN /\ ret' = [op |-> "load_fixtures_by_context", args |-> contexts,
                              strategy |-> strategy, result |-> r]
                   /\ call' = Idle
              ELSE /\ ret' = NoCall
                   /\ call' = [Idle EXCEPT !.pc = "fixture",
                                           !.op = "load_fixtures_by_context",
                                           !.args = contexts, !.strategy = strategy,
                                           !.ordered = r.value, !.idx = 1]
    /\ UNCHANGED <<registry, db, session>>

\* _load_ordered: `return results` once the loop is over.
LoadReturn ==
    /\ call.pc = "fixture"
    /\ call.idx > Len(call.ordered)
    /\ ret' = [op |-> call.op, args |-> call.args, strategy |-> call.strategy,
               result |-> [kind |-> "ok", value |-> call.results, name |-> None]]
    /\ call' = Idle
    /\ UNCHANGED <<registry, db, session, log>>

\* The head of the loop body without the test for an empty result: the
\* transaction is entered for every fixture.
LoadProduceAlwaysEnters ==
    /\ call.pc = "fixture"
    /\ call.idx <= Len(call.ordered)
    /\ LET name == current_name(call)
           func == get(registry, name).value.func
           instances == Produce(func)
       IN /\ log' = Append(log, <<"produce", name>>)
          /\ IF Raises(func)
             THEN Raise("RuntimeError", name)
             ELSE /\ call' = [call EXCEPT !.pc = "enter", !.name = name,
                                          !.instances = instances, !.i = 1,
                                          !.loaded = <<>>]
                  /\ UNCHANGED ret
    /\ UNCHANGED <<registry, db, session>>

\* The head of the loop body that moves on from an empty result without
\* recording it.
LoadProduceSkipsEmpty ==
    /\ call.pc = "fixture"
    /\ call.idx <= Len(call.ordered)
    /\ LET name == current_name(call)
           func == get(registry, name).value.func
           instances == Produce(func)
       IN /\ log' = Append(log, <<"produce", name>>)
          /\ IF Raises(func)
             THEN Raise("RuntimeError", name)
             ELSE /\ UNCHANGED ret
                  /\ IF instances = <<>>
                     THEN call' = [call EXCEPT !.idx = @ + 1]
                     ELSE call' = [call EXCEPT !.pc = "enter", !.name = name,
                                               !.instances = instances, !.i = 1,
                                               !.loaded = <<>>]
    /\ UNCHANGED <<registry, db, session>>

\* _load_ordered: the head of the loop body, to `async with`: the producer is
\* called, and an empty result is recorded without a transaction; an
\* exception of the producer leaves the call.
LoadProduce ==
    /\ call.pc = "fixture"
    /\ call.idx <= Len(call.ordered)
    /\ LET name == current_name(call)
           func == get(registry, name).value.func
           instances == Produce(func)
       IN /\ log' = Append(log, <<"produce", name>>)
          /\ IF Raises(func)
             THEN Raise("RuntimeError", name)
             ELSE /\ UNCHANGED ret
                  /\ IF instances = <<>>
                     THEN call' = [call EXCEPT !.results = (name :> <<>>) @@ @,
                                               !.idx = @ + 1]
                     ELSE call' = [call EXCEPT !.pc = "enter", !.name = name,
                                               !.instances = instances, !.i = 1,
                                               !.loaded = <<>>]
    /\ UNCHANGED <<registry, db, session>>

\* _load_ordered: `async with get_transaction(session)` is entered.
LoadEnter ==
    /\ call.pc = "enter"
    /\ session' = enter_fixture_transaction(session)
    /\ call' = [call EXCEPT !.pc = "apply"]
    /\ log' = Append(log, <<"begin", call.name>>)
    /\ UNCHANGED <<registry, ret, db>>

\* _load_ordered: one pass of `for instance in instances`; an exception
\* leaves the `async with` block, which rolls back.
LoadApply ==
    /\ call.pc = "apply"
    /\ call.i <= Len(call.instances)
    /\ LET r == apply_instance(call.strategy, session, call.instances[call.i])
       IN IF r.kind # "ok"
          THEN /\ session' = abort_fixture_transaction(r.session)
               /\ log' = Append(log, <<"rollback", call.name>>)
               /\ Raise(r.kind, None)
          ELSE /\ session' = r.session
               /\ call' = [call EXCEPT !.loaded = @ \o r.loaded, !.i = @ + 1]
               /\ UNCHANGED <<ret, log>>
    /\ UNCHANGED <<registry, db>>

\* _load_ordered: the `async with` block is left after the last instance, and
\* `results[name] = loaded`.
LoadExit ==
    /\ call.pc = "apply"
    /\ call.i > Len(call.instances)
    /\ LET c == exit_fixture_transaction(session, db)
       IN /\ session' = c.session
          /\ db' = c.db
          /\ IF c.kind # "ok"
             THEN /\ log' = Append(log, <<"rollback", call.name>>)
                  /\ Raise(c.kind, None)
             ELSE /\ log' = Append(log, <<"commit", call.name>>)
                  /\ call' = [call EXCEPT !.pc = "fixture",
                                          !.results = (call.name :> call.loaded) @@ @,
                                          !.idx = @ + 1]
                  /\ UNCHANGED ret
    /\ UNCHANGED registry

\* A storage operation inside the fixture's transaction fails (the
\* connection is lost): the `async with` block rolls back and the error
\* propagates.
StorageFault ==
    /\ call.pc = "apply"
    /\ session' = abort_fixture_transaction(session)
    /\ log' = Append(log, <<"rollback", call.name>>)
    /\ Raise("OperationalError", None)
    /\ UNCHANGED <<registry, db>>

\* The caller opens a transaction on the session before loading.
OuterBegin ==
    /\ call.pc = "idle"
    /\ ret = NoCall
    /\ ~in_transaction(session)
    /\ session' = get_transaction_enter(session, "caller")
    /\ UNCHANGED <<registry, ret, db, call, log>>

\* The caller commits its transaction.
OuterCommit ==
    /\ call.pc = "idle"
    /\ ret = NoCall
    /\ in_transaction(session)
    /\ LET c == get_transaction_exit(session, db)
       IN session' = c.session /\ db' = c.db
    /\ ret' = [NoCall EXCEPT !.op = "commit"]
    /\ UNCHANGED <<registry, call, log>>

\* The caller rolls its transaction back.
OuterRollback ==
    /\ call.pc = "idle"
    /\ ret = NoCall
    /\ in_transaction(session)
    /\ session' = session_rollback(session)
    /\ ret' = [NoCall EXCEPT !.op = "rollback"]
    /\ UNCHANGED <<registry, db, call, log>>

vars == <<registry, ret, db, session, call, log>>

\* ------------------------------------------------- resolver specification

InitResolve ==
    /\ registry \in Registries
    /\ ret = NoCall
    /\ db = {}
    /\ session = CleanSession({})
    /\ call = Idle
    /\ log = <<>>

NextResolve ==
    \/ \E names \in SeqsUpTo(Names, MaxNames) \ {<<>>} : ResolveDependencies(names)
    \/ \E name \in Names : Get(name)
    \/ Return

SpecResolve == InitResolve /\ [][NextResolve]_vars

\* ------------------------------------------------- registry specification

\* The registry is built by registrations, bare or with keyword arguments,
\* and read by get and get_by_context.
InitRegistry ==
    /\ registry = <<>>
    /\ ret = NoCall
    /\ db = {}
    /\ session = CleanSession({})
    /\ call = Idle
    /\ log = <<>>

NextRegistry ==
    \/ \E fn \in {"a", "a2", "b"}, name \in {None, "c"},
          depends_on \in {<<>>, <<"a">>},
          contexts \in {{}, {TESTING}, {BASE, TESTING}} :
          Register(fn, name, depends_on, contexts)
    \/ \E name \in Names : Get(name)
    \/ \E contexts \in SeqsUpTo({BASE, TESTING}, 2) : GetByContext(contexts)
    \/ Return

SpecRegistry == InitRegistry /\ [][NextRegistry]_vars

\* -------------------------------------------------- context specification

\* The registries over the three names in which a registered fixture is
\* tagged with one context.
ContextRegistries ==
    {RegistryOf(g) :
        g \in {h \in [Names -> {Unregistered} \cup
                                [registered : {TRUE}, func : Names,
                                 depends_on : DepLists,
                                 contexts : {{BASE}, {TESTING}}]] :
                  \A n \in Names : h[n].registered => h[n].func = n}}

InitContext ==
    /\ registry \in ContextRegistries
    /\ ret = NoCall
    /\ db = {}
    /\ session = CleanSession({})
    /\ call = Idle
    /\ log = <<>>

NextContext ==
    \/ \E contexts \in SUBSET {BASE, TESTING} \ {{}} : ResolveContextDependencies(contexts)
    \/ Return

SpecContext == InitContext /\ [][NextContext]_vars

\* ------------------------------------------- composite-key specification

\* Two independent fixtures, each with one of the composite-key producers.
InitKeys ==
    /\ \E fa, fb \in DOMAIN CompositeProducers :
          registry = <<Fixture("a", fa, <<>>, {BASE}), Fixture("b", fb, <<>>, {BASE})>>
    /\ ret = NoCall
    /\ db = {}
    /\ session = CleanSession({})
    /\ call = Idle
    /\ log = <<>>

NextKeys ==
    \/ \E names \in {<<"a">>, <<"b">>, <<"a", "b">>}, strategy \in LoadStrategy :
          LoadFixtures(names, strategy)
    \/ Return
    \/ LoadReturn
    \/ LoadProduce
    \/ LoadEnter
    \/ LoadApply
    \/ LoadExit

SpecKeys == InitKeys /\ [][NextKeys]_vars

\* ----------------------------------------------------- load specification

\* The fixtures the application registers at import time, per name.
AppFixtures ==
    [a |-> {Unregistered,
            [registered |-> TRUE, func |-> "a", depends_on |-> <<>>, contexts |-> {BASE}],
            [registered |-> TRUE, func |-> "a", depends_on |-> <<"c">>, contexts |-> {BASE}]},
     b |-> {Unregistered,
            [registered |-> TRUE, func |-> "b", depends_on |-> <<"a">>, contexts |-> {TESTING}]},
     c |-> {Unregistered,
            [registered |-> TRUE, func |-> "c", depends_on |-> <<>>, contexts |-> {BASE}],
            [registered |-> TRUE, func |-> "c", depends_on |-> <<"a", "b">>, contexts |-> {TESTING}],
            [registered |-> TRUE, func |-> "c2", depends_on |-> <<"b">>, contexts |-> {BASE}]}]

\* The application defines a producer of a registered fixture again and
\* registers it with the bare decorator (the producer is swapped between two
\* loads).
Redefine ==
    \E fn \in {"a", "a2", "a_raises"} :
        Registered(registry, FuncName(fn)) /\ Register(fn, None, <<>>, {})

Contexts == {BASE, TESTING}

\* The values a caller passes as `strategy`: the members of the enumeration
\* and a str that is none of them (the annotation is not enforced).
Strategies == LoadStrategy \cup {"upsert"}

Init ==
    /\ \E g \in [Names -> UNION {AppFixtures[n] : n \in Names}] :
          /\ \A n \in Names : g[n] \in AppFixtures[n]
          /\ registry = RegistryOf(g)
    /\ ret = NoCall
    /\ db = {}
    /\ session = CleanSession({})
    /\ call = Idle
    /\ log = <<>>

Next ==
    \/ \E names \in SeqsUpTo(Names, MaxNames) \ {<<>>}, strategy \in Strategies :
          LoadFixtures(names, strategy)
    \/ \E contexts \in SUBSET Contexts \ {{}}, strategy \in Strategies :
          LoadFixturesByContext(contexts, strategy)
    \/ Redefine
    \/ Return
    \/ LoadReturn
    \/ LoadProduce
    \/ LoadEnter
    \/ LoadApply
    \/ LoadExit
    \/ StorageFault
    \/ OuterBegin
    \/ OuterCommit
    \/ OuterRollback

Spec == Init /\ [][Next]_vars

\* ------------------------------------------------------------------ claims

\* C1: on a registry whose dependency graph reachable from the requested
\* names is acyclic and fully registered, resolve_dependencies returns a list
\* in which every requested name comes after all its transitive dependencies,
\* every listed fixture comes after all its own depends_on entries, and no
\* name appears twice.
C1_DependenciesFirst ==
    (/\ ret.op = "resolve_dependencies"
     /\ ~CycleReachable(registry, Range(ret.args))
     /\ FullyRegistered(registry, Range(ret.args)))
    => /\ ret.result.kind = "ok"
       /\ LET out == ret.result.value
          IN /\ \A n \in Range(ret.args) :
                   /\ n \in Range(out)
                   /\ \A d \in TransDeps(registry, n) :
                          d \in Range(out) /\ IndexOf(out, d) < IndexOf(out, n)
             /\ \A i \in 1..Len(out) : \A d \in DepsOf(registry, out[i]) :
                   \E j \in 1..(i - 1) : out[j] = d
             /\ \A i, j \in 1..Len(out) : i # j => out[i] # out[j]

\* A single requested name with two depends_on entries, one of which depends
\* on the other, has been resolved to three names.
C1_Witness ==
    /\ ret.op = "resolve_dependencies"
    /\ Len(ret.args) = 1
    /\ ret.result.kind = "ok"
    /\ Len(ret.result.value) = 3
    /\ Len(get(registry, ret.args[1]).value.depends_on) = 2
    /\ \E d \in DepsOf(registry, ret.args[1]) : DepsOf(registry, d) # {}

\* C2 as claimed: whenever a cycle is reachable from the requested name,
\* resolve_dependencies fails with the circular-dependency error.
C2_CycleAlwaysValueError ==
    (/\ ret.op = "resolve_dependencies"
     /\ Len(ret.args) = 1
     /\ CycleReachable(registry, Range(ret.args)))
    => ret.result.kind = "ValueError"

\* C2: whenever a cycle (of one node or more) is reachable from the requested
\* names, resolve_dependencies returns no ordering: it raises ValueError,
\* naming a fixture that lies on a cycle, when every reachable name is
\* registered, and ValueError or KeyError otherwise.
C2_CycleFails ==
    (ret.op = "resolve_dependencies" /\ CycleReachable(registry, Range(ret.args)))
    => /\ ret.result.kind \in {"ValueError", "KeyError"}
       /\ FullyRegistered(registry, Range(ret.args)) => ret.result.kind = "ValueError"
       /\ ret.result.kind = "ValueError"
              => ret.result.name \in TransDeps(registry, ret.result.name)

\* A cycle of more than one node, met below a requested name that is not the
\* one detected, has made the call raise ValueError.
C2_Witness ==
    /\ ret.op = "resolve_dependencies"
    /\ ret.result.kind = "ValueError"
    /\ ret.result.name \notin DepsOf(registry, ret.result.name)
    /\ FullyRegistered(registry, Range(ret.args))

Loads == {"load_fixtures", "load_fixtures_by_context"}

\* The names a load call asks for: its names, or the fixtures tagged with one
\* of its contexts.
Requested(reg, op, args) ==
    IF op = "load_fixtures" THEN Range(args)
    ELSE {get_by_context(reg, args)[i].name : i \in 1..Len(get_by_context(reg, args))}

\* The producers called so far by the load call, in order.
Produced == SelectSeq(log, LAMBDA e : e[1] = "produce")

\* C3: in a load call the fixtures are processed one after another in
\* resolved order, and when the producer of a fixture B is called or B's
\* transaction is opened, the producer of every transitive dependency A of B
\* has been called and every transaction opened for A has been committed.
C3_DependenciesLoadedFirst ==
    /\ \A p \in 1..Len(log) :
          log[p][1] \in {"produce", "begin"}
          => \A A \in TransDeps(registry, log[p][2]) :
                /\ \E q \in 1..(p - 1) : log[q] = <<"produce", A>>
                /\ \A q \in 1..(p - 1) :
                      log[q] = <<"begin", A>>
                      => \E r \in (q + 1)..(p - 1) : log[r] = <<"commit", A>>
    /\ call.pc # "idle"
       => /\ Len(Produced) <= Len(call.ordered)
          /\ \A k \in 1..Len(Produced) : Produced[k][2] = call.ordered[k]

\* The transaction of a fixture with two transitive dependencies has been
\* opened.
C3_Witness ==
    \E p \in 1..Len(log) :
        /\ log[p][1] = "begin"
        /\ Cardinality(TransDeps(registry, log[p][2])) = 2

\* The resolution of a request fails: an unregistered name or a cycle is
\* reachable from the names asked for.
ResolutionFails(reg, op, args) ==
    \/ ~FullyRegistered(reg, Requested(reg, op, args))
    \/ CycleReachable(reg, Requested(reg, op, args))

\* C4: a load call whose resolution fails (an unregistered name, an
\* unregistered dependency or a cycle) raises KeyError or ValueError at once:
\* no producer is called, no transaction is opened and storage and session
\* are left as they were, also when names given earlier resolve on their own.
C4_ResolutionErrorsFirst ==
    [][(/\ call.pc = "idle"
        /\ ret = NoCall
        /\ \/ call'.op \in Loads /\ ResolutionFails(registry, call'.op, call'.args)
           \/ ret'.op \in Loads /\ ResolutionFails(registry, ret'.op, ret'.args))
       => /\ call'.pc = "idle"
          /\ ret'.op \in Loads
          /\ ret'.result.kind \in {"KeyError", "ValueError"}
          /\ log' = <<>>
          /\ UNCHANGED <<db, session>>]_vars

\* load_fixtures has raised on a request of two names of which the first
\* resolves on its own, with rows of an earlier load in storage.
C4_Witness ==
    /\ ret.op = "load_fixtures"
    /\ ret.result.kind \in {"KeyError", "ValueError"}
    /\ Len(ret.args) = 2
    /\ ~ResolutionFails(registry, "load_fixtures", <<ret.args[1]>>)
    /\ log = <<>>
    /\ db # {}

PersistenceErrors == {"IntegrityError", "OperationalError"}

\* The step in which an exception leaves the fixture's `async with` block.
FixtureFails == call.pc = "apply" /\ call'.pc = "idle"

\* The caller holds a transaction of its own on the session.
CallerTx(s) == in_transaction(s) /\ s.txs[1].owner = "caller"

RECURSIVE WrittenUpTo(_, _)
WrittenUpTo(c, k) ==
    IF k = 0 THEN <<>> ELSE WrittenUpTo(c, k - 1) \o c.results[c.ordered[k]]
\* The rows the fixtures before the current one created or updated, in order.
Written(c) == WrittenUpTo(c, c.idx - 1)
\* Those of them that no later one of them replaced.
Standing(c) ==
    {Written(c)[p] : p \in {p \in 1..Len(Written(c)) :
        \A q \in (p + 1)..Len(Written(c)) : Written(c)[q].pk # Written(c)[p].pk}}

\* C5: when a persistence error leaves the transaction of fixture k, the rows
\* written by the fixtures before k stay visible in the session, and with no
\* transaction of the caller around the load they stay committed in storage.
C5_EarlierFixturesStand ==
    [][FixtureFails
       => /\ ret'.result.kind \in PersistenceErrors
          /\ Standing(call) \subseteq session'.work
          /\ ~CallerTx(session) => ~in_transaction(session') /\ Standing(call) \subseteq db']_vars

\* A load with no transaction of the caller has failed on a uniqueness error
\* after committing an earlier fixture.
C5_Witness ==
    /\ ret.op \in Loads
    /\ ret.result.kind = "IntegrityError"
    /\ \E p \in 1..Len(log) : log[p][1] = "commit"
    /\ ~in_transaction(session)
    /\ db # {}

\* C6: when a persistence error leaves a fixture's transaction, the
\* transaction is rolled back: the session sees the rows it saw when the
\* transaction began, nothing stays staged, storage is unchanged, and the
\* call raises the storage error itself (a uniqueness error only where a key
\* is taken).
C6_FixtureAtomic ==
    [][FixtureFails
       => /\ session'.work = session.txs[Len(session.txs)].snap
          /\ session'.new = <<>>
          /\ session'.txs = SubSeq(session.txs, 1, Len(session.txs) - 1)
          /\ db' = db
          /\ ret'.op = call.op
          /\ ret'.result.kind \in PersistenceErrors
          /\ ret'.result.kind = "IntegrityError"
             => \E i \in 1..Len(call.instances) :
                   \/ HasKey(session.work, call.instances[i].pk)
                   \/ \E j \in 1..(i - 1) : call.instances[j].pk = call.instances[i].pk]_vars

\* A fixture whose second instance repeats the key of its first has failed
\* under INSERT, after the first was written.
C6_Witness ==
    /\ ret.op \in Loads
    /\ ret.strategy = INSERT
    /\ ret.result.kind = "IntegrityError"
    /\ Len(log) > 0
    /\ log[Len(log)] = <<"rollback", "c">>
    /\ ~HasKey(session.work, <<"3">>)

\* C7: while the caller holds a transaction of its own, storage is not
\* written by a load; every transaction the engine opens is a savepoint; a
\* failing fixture rolls back to its savepoint and leaves the caller's
\* transaction open with the rows of the earlier fixtures; and the caller's
\* rollback leaves the session with the committed rows it had when the
\* caller's transaction began.
C7_SavepointsInCallerTx ==
    [][CallerTx(session)
       => /\ session.txs[1].snap = db
          /\ Len(session'.txs) > Len(session.txs)
             => session'.txs[Len(session'.txs)].kind = "savepoint"
          /\ ret'.op # "commit" => db' = db
          /\ FixtureFails
             => /\ session'.work = session.txs[Len(session.txs)].snap
                /\ CallerTx(session')
                /\ Standing(call) \subseteq session'.work
          /\ (ret = NoCall /\ ret'.op = "rollback")
             => /\ ~in_transaction(session')
                /\ session'.work = session.txs[1].snap
                /\ db' = session.txs[1].snap]_vars

\* Inside a transaction of the caller, a fixture has failed after an earlier
\* fixture wrote rows that storage does not hold.
C7_Witness ==
    /\ ret.op \in Loads
    /\ ret.result.kind \in PersistenceErrors
    /\ CallerTx(session)
    /\ \E p \in 1..Len(log) : log[p][1] = "commit"
    /\ session.work # db

\* The call is inside a fixture's transaction, under the given strategy.
Applying(strategy) == call.pc = "apply" /\ call.strategy = strategy

\* The rows the session saw when the transaction in progress began.
AtBegin(s) == s.txs[Len(s.txs)].snap

\* The fixtures of the load that returned, and the place of each in its order.
ReturnedNames == DOMAIN ret.result.value
Place(n) == CHOOSE p \in 1..Len(Produced) : Produced[p][2] = n

LoadOk(strategy) ==
    ret.op \in Loads /\ ret.strategy = strategy /\ ret.result.kind = "ok"

\* C8: under MERGE no load ends in a uniqueness error; inside a fixture's
\* transaction every instance processed so far is recorded, has exactly one
\* row with its primary key, and that row carries the values of the last
\* instance processed with that key; and when the load returns, each fixture
\* has one entity per instance it produced, each primary key has exactly one
\* row, and the entity returned for the last instance of a key is the stored
\* row, with the value the producer gives now.
C8_MergeIdempotent ==
    /\ (ret.op \in Loads /\ ret.strategy = MERGE) => ret.result.kind # "IntegrityError"
    /\ Applying(MERGE)
       => /\ call.loaded = SubSeq(call.instances, 1, call.i - 1)
          /\ \A j \in 1..(call.i - 1) :
                /\ Cardinality({r \in Held(session) : r.pk = call.instances[j].pk}) = 1
                /\ (\A q \in (j + 1)..(call.i - 1) :
                        call.instances[q].pk # call.instances[j].pk)
                   => call.instances[j] \in Held(session)
    /\ LoadOk(MERGE)
       => \A n \in ReturnedNames :
             LET produced == Produce(get(registry, n).value.func)
                 returned == ret.result.value[n]
             IN /\ Len(returned) = Len(produced)
                /\ \A j \in 1..Len(produced) :
                      /\ returned[j].pk = produced[j].pk
                      /\ Cardinality({r \in session.work : r.pk = produced[j].pk}) = 1
                      /\ (\A m \in ReturnedNames : \A q \in 1..Len(ret.result.value[m]) :
                             ret.result.value[m][q].pk = produced[j].pk
                             => Place(m) < Place(n) \/ (m = n /\ q <= j))
                         => returned[j] = produced[j] /\ returned[j] \in session.work

\* A fixture whose producer changed is loaded again under MERGE: the row
\* stored with the old values now carries the new ones.
C8_Witness ==
    /\ Applying(MERGE)
    /\ call.instances = Produce("a2")
    /\ call.i = 2
    /\ Instance("1", "original") \in AtBegin(session)
    /\ Instance("1", "updated") \in session.work
    /\ Instance("1", "original") \notin session.work

\* An instance processed under SKIP_EXISTING found its key taken: by a row
\* there when the transaction began or by an earlier instance of the fixture.
Existed(j) ==
    \/ HasKey(AtBegin(session), call.instances[j].pk)
    \/ \E q \in 1..(j - 1) : call.instances[q].pk = call.instances[j].pk

RECURSIVE Created(_)
\* The first k instances of the fixture whose key was not taken, in order.
Created(k) ==
    IF k = 0 THEN <<>>
    ELSE Created(k - 1) \o (IF Existed(k) THEN <<>> ELSE <<call.instances[k]>>)

\* C9: inside a fixture's transaction under SKIP_EXISTING, the rows there
\* when the transaction began are all unchanged, the recorded entities are
\* exactly the processed instances whose key was not taken, in order, each of
\* them is held by the session, and nothing else was added; the entities a
\* SKIP_EXISTING load returns are stored rows.
C9_SkipExisting ==
    /\ Applying(SKIP_EXISTING)
       => /\ AtBegin(session) \subseteq session.work
          /\ call.loaded = Created(call.i - 1)
          /\ Held(session) = AtBegin(session) \cup Range(call.loaded)
          /\ Cardinality(Held(session)) = Cardinality(AtBegin(session)) + Len(call.loaded)
    /\ LoadOk(SKIP_EXISTING)
       => \A n \in ReturnedNames :
             \A j \in 1..Len(ret.result.value[n]) : ret.result.value[n][j] \in session.work

\* A fixture producing a stored key with changed values and a new key was
\* processed under SKIP_EXISTING: only the new one is recorded.
C9_Witness ==
    /\ Applying(SKIP_EXISTING)
    /\ call.instances = Produce("a2")
    /\ call.i = 3
    /\ Instance("1", "original") \in AtBegin(session)
    /\ ~HasKey(AtBegin(session), <<"2">>)
    /\ call.loaded = <<Instance("2", "original")>>

\* C10: inside a fixture's transaction under INSERT every instance processed
\* so far is recorded and staged and nothing is written yet; and when all are
\* staged and the key of one of them is already taken in what the session
\* sees, the fixture cannot complete: the call raises the uniqueness error
\* (or the connection error, when the connection fails first), and the rows
\* the session saw and the stored rows are as before.
C10_InsertConflicts ==
    [][Applying(INSERT)
       => /\ call.loaded = SubSeq(call.instances, 1, call.i - 1)
          /\ session.new = call.loaded
          /\ session.work = AtBegin(session)
          /\ (/\ call.i > Len(call.instances)
              /\ \E j \in 1..Len(call.instances) :
                    HasKey(session.work, call.instances[j].pk))
             => /\ call'.pc = "idle"
                /\ ret'.op = call.op
                /\ ret'.result.kind \in {"IntegrityError", "OperationalError"}
                /\ session'.work = session.work
                /\ session'.new = <<>>
                /\ db' = db]_vars

\* A fixture stored by an earlier load, its producer changed since, was
\* loaded again under INSERT: the call raised the uniqueness error and the
\* row of the earlier load is stored with its old values.
C10_Witness ==
    /\ ret.op \in Loads
    /\ ret.strategy = INSERT
    /\ ret.result.kind = "IntegrityError"
    /\ log = <<<<"produce", "a">>, <<"begin", "a">>, <<"rollback", "a">>>>
    /\ get(registry, "a").value.func = "a2"
    /\ Instance("1", "original") \in db
    /\ session.work = db

\* The step in which a fixture's transaction is committed and its list recorded.
FixtureRecorded == call.pc = "apply" /\ call'.pc = "fixture"

\* C11: when a fixture's transaction is committed, the list recorded under
\* its name is, under MERGE, one entity per produced instance with that
\* instance's key, in producer order, the entity of the last instance of a key
\* being the stored row; under INSERT, all the produced instances, none of
\* whose keys existed; under SKIP_EXISTING, the produced instances whose key
\* was not taken, in producer order; under INSERT and SKIP_EXISTING the
\* recorded entities are exactly the rows the fixture added. The lists of the
\* other fixtures are left as they are, and the call returns the mapping as
\* recorded, with one entry per resolved name.
C11_RecordedLists ==
    [][/\ FixtureRecorded
          => LET rec == call'.results[call.name]
                 n == Len(call.instances)
             IN /\ call.name \notin DOMAIN call.results
                /\ DOMAIN call'.results = DOMAIN call.results \cup {call.name}
                /\ \A m \in DOMAIN call.results : call'.results[m] = call.results[m]
                /\ call.strategy = MERGE
                   => /\ Len(rec) = n
                      /\ \A j \in 1..n :
                            /\ rec[j].pk = call.instances[j].pk
                            /\ (\A q \in (j + 1)..n : call.instances[q].pk # rec[j].pk)
                               => rec[j] = call.instances[j] /\ rec[j] \in session'.work
                /\ call.strategy = INSERT
                   => /\ rec = call.instances
                      /\ \A j \in 1..n : ~HasKey(AtBegin(session), rec[j].pk)
                /\ call.strategy = SKIP_EXISTING => rec = Created(n)
                /\ call.strategy \in {INSERT, SKIP_EXISTING}
                   => /\ Range(rec) = session'.work \ AtBegin(session)
                      /\ Cardinality(Range(rec)) = Len(rec)
       /\ (call.pc = "fixture" /\ call.idx > Len(call.ordered) /\ call'.pc = "idle")
          => /\ ret'.result.kind = "ok"
             /\ ret'.result.value = call.results
             /\ DOMAIN call.results = Range(call.ordered)]_vars

\* A MERGE load returned the entities of two fixtures, the second of which
\* reconciled a row that the first had created.
C11_Witness ==
    /\ LoadOk(MERGE)
    /\ Registered(registry, "a")
    /\ get(registry, "a").value.func = "a2"
    /\ DOMAIN ret.result.value = {"a", "b"}
    /\ ret.result.value["a"] = Produce("a2")
    /\ ret.result.value["b"] = Produce("b")

\* A call of resolve_context_dependencies has returned an ordering.
ContextResolved ==
    ret.op = "resolve_context_dependencies" /\ ret.result.kind = "ok"

\* The names registered with at least one of the contexts.
Tagged(reg, contexts) ==
    {n \in Names : Registered(reg, n) /\ get(reg, n).value.contexts \cap contexts # {}}

\* A sequence of names without repetition in which every dependency is
\* placed before its dependents.
DependencyOrdered(reg, out) ==
    /\ \A i, j \in 1..Len(out) : i # j => out[i] # out[j]
    /\ \A i \in 1..Len(out) :
          \A d \in DepsOf(reg, out[i]) : \E j \in 1..(i - 1) : out[j] = d

\* C12: the names resolve_context_dependencies returns are exactly the names
\* reachable along depends_on from the fixtures tagged with a requested
\* context, whatever their own tags, each once and every dependency before
\* its dependents.
C12_ContextClosure ==
    ContextResolved
    => /\ Range(ret.result.value) = Closure(registry, Tagged(registry, ret.args))
       /\ DependencyOrdered(registry, ret.result.value)

\* An ordering was returned that holds a fixture not tagged with any
\* requested context, as the dependency of one that is.
C12_Witness ==
    /\ ContextResolved
    /\ \E i \in 1..Len(ret.result.value) :
          /\ ret.result.value[i] \notin Tagged(registry, ret.args)
          /\ \E j \in (i + 1)..Len(ret.result.value) :
                /\ ret.result.value[j] \in Tagged(registry, ret.args)
                /\ ret.result.value[i] \in DepsOf(registry, ret.result.value[j])

\* The names resolve_context_dependencies(*contexts) can return, for each
\* order in which all_deps may be iterated.
ContextNames(reg, contexts) ==
    {Range(resolve_context_dependencies(reg, contexts, order).value) :
        order \in Orders(context_deps(reg, contexts).value)}

\* C13: when resolve_context_dependencies returns for a set of contexts, it
\* returns for each one of them alone too, and its names include the names
\* returned for each context alone and every transitive dependency of a
\* fixture tagged with one of the contexts, each name once and dependencies
\* before dependents.
C13_ContextUnion ==
    ContextResolved
    => /\ \A c \in ret.args :
             /\ context_deps(registry, {c}).kind = "ok"
             /\ \A single \in ContextNames(registry, {c}) :
                   single \subseteq Range(ret.result.value)
       /\ \A n \in Tagged(registry, ret.args) :
             TransDeps(registry, n) \subseteq Range(ret.result.value)
       /\ DependencyOrdered(registry, ret.result.value)

\* Two contexts were resolved together, each of which alone gives some names
\* but not all those of the two together.
C13_Witness ==
    /\ ContextResolved
    /\ ret.args = {BASE, TESTING}
    /\ \A c \in ret.args :
          \A single \in ContextNames(registry, {c}) :
              single # {} /\ single # Range(ret.result.value)

\* C14: for a registry and a set of contexts, every call of
\* resolve_context_dependencies returns the same sequence.
C14_ContextOrderDeterministic ==
    ContextResolved
    => \A order \in Orders(context_deps(registry, ret.args).value) :
          resolve_context_dependencies(registry, ret.args, order).value
              = ret.result.value

RECURSIVE PostOrderFrom(_, _, _, _)
\* The depth-first post-order of an acyclic dependency graph: the entries of
\* `list` from the k-th on, each after its depends_on entries in listed
\* order, the names already in `done` skipped.
PostOrderFrom(reg, list, k, done) ==
    IF k > Len(list) THEN done
    ELSE PostOrderFrom(reg, list, k + 1,
            IF list[k] \in Range(done) THEN done
            ELSE Append(PostOrderFrom(reg, get(reg, list[k]).value.depends_on, 1, done),
                        list[k]))

\* C15: on an acyclic, fully registered closure resolve_dependencies returns
\* the depth-first post-order of the dependency graph, the requested names
\* taken in argument order and each fixture's depends_on in listed order; a
\* second call with the same arguments returns the same sequence.
C15_PostOrder ==
    (/\ ret.op = "resolve_dependencies"
     /\ ~CycleReachable(registry, Range(ret.args))
     /\ FullyRegistered(registry, Range(ret.args)))
    => /\ ret.result.kind = "ok"
       /\ ret.result.value = PostOrderFrom(registry, ret.args, 1, <<>>)
       /\ resolve_dependencies(registry, ret.args) = ret.result

\* Two requested names that do not depend on each other, the second of which
\* has a dependency, were resolved: the order is that of the arguments.
C15_Witness ==
    /\ ret.op = "resolve_dependencies"
    /\ ret.result.kind = "ok"
    /\ Len(ret.args) = 2
    /\ Len(ret.result.value) = 3
    /\ ret.result.value[1] = ret.args[1]
    /\ ret.result.value[3] = ret.args[2]
    /\ ret.args[1] \notin TransDeps(registry, ret.args[2])
    /\ ret.result.value[2] \in DepsOf(registry, ret.args[2])

\* C16: get(name) raises KeyError exactly when the name is not registered,
\* and returns the fixture registered under the name otherwise;
\* resolve_dependencies raises KeyError only for a name that is reachable from
\* the request and not registered, never returns when such a name is
\* reachable, and raises KeyError for it when the first requested name is not
\* registered or when no cycle is reachable that the traversal could meet
\* first.
C16_NotFound ==
    /\ ret.op = "get"
       => /\ ret.result.kind = "KeyError" <=> ~Registered(registry, ret.args[1])
          /\ ret.result.kind = "KeyError" => ret.result.name = ret.args[1]
          /\ ret.result.kind \in {"ok", "KeyError"}
          /\ ret.result.kind = "ok" => ret.result.value.name = ret.args[1]
    /\ ret.op = "resolve_dependencies"
       => /\ ret.result.kind = "KeyError"
             => /\ ret.result.name \in Closure(registry, Range(ret.args))
                /\ ~Registered(registry, ret.result.name)
                /\ get(registry, ret.result.name).kind = "KeyError"
          /\ ~FullyRegistered(registry, Range(ret.args)) => ret.result.kind # "ok"
          /\ ~Registered(registry, ret.args[1])
             => ret.result.kind = "KeyError" /\ ret.result.name = ret.args[1]
          /\ (~FullyRegistered(registry, Range(ret.args))
              /\ ~CycleReachable(registry, Range(ret.args)))
             => ret.result.kind = "KeyError"

\* A request whose first name resolves failed on a dependency of its second
\* name that is not registered.
C16_Witness ==
    /\ ret.op = "resolve_dependencies"
    /\ Len(ret.args) = 2
    /\ resolve_dependencies(registry, <<ret.args[1]>>).kind = "ok"
    /\ ret.result.kind = "KeyError"
    /\ ret.result.name \notin Range(ret.args)
    /\ ret.result.name \in DepsOf(registry, ret.args[2])

\* C17: a load called with a strategy outside the enumeration does not
\* complete normally.
C17_InvalidStrategyRaises ==
    (ret.op \in Loads /\ ret.strategy \notin LoadStrategy) => ret.result.kind # "ok"

\* A composite key with a component unset, and one with some but not all of
\* its components unset.
SomeUnset(instance) == \E c \in 1..Len(instance.pk) : instance.pk[c] = None
AllUnset(instance) == \A c \in 1..Len(instance.pk) : instance.pk[c] = None
PartialKey(instance) ==
    Len(instance.pk) > 1 /\ SomeUnset(instance) /\ ~AllUnset(instance)

\* C18 as claimed: an instance with a composite key that has no key by
\* _get_primary_key has every key component unset.
C18_NoKeyOnlyIfAllUnset ==
    call.pc = "apply"
    => \A j \in 1..Len(call.instances) :
          (Len(call.instances[j].pk) > 1
           /\ _get_primary_key(call.instances[j]) = NoKey)
          => AllUnset(call.instances[j])

\* C18: an instance with a composite key has no key by _get_primary_key
\* exactly when at least one key component is unset, and its key is the
\* tuple of its components otherwise.
C18_NoKeyIffSomeUnset ==
    call.pc = "apply"
    => \A j \in 1..Len(call.instances) :
          Len(call.instances[j].pk) > 1
          => /\ _get_primary_key(call.instances[j]) = NoKey
                <=> SomeUnset(call.instances[j])
             /\ ~SomeUnset(call.instances[j])
                => _get_primary_key(call.instances[j]) = call.instances[j].pk

\* Under SKIP_EXISTING an instance with one of two key components unset was
\* staged without a lookup.
C18_Witness ==
    /\ Applying(SKIP_EXISTING)
    /\ call.i > 1
    /\ PartialKey(call.instances[call.i - 1])
    /\ _get_primary_key(call.instances[call.i - 1]) = NoKey
    /\ call.instances[call.i - 1] \in Range(session.new)

\* C19: under SKIP_EXISTING the step that processes an instance with a
\* partly set composite key stages the instance and records it, without a
\* lookup (nothing pending is flushed, the rows the session sees are as
\* before) and without an error.
C19_PartialKeyCreated ==
    [][(/\ Applying(SKIP_EXISTING)
        /\ call.i <= Len(call.instances)
        /\ PartialKey(call.instances[call.i]))
       => /\ call'.pc = "apply"
          /\ call'.i = call.i + 1
          /\ call'.loaded = Append(call.loaded, call.instances[call.i])
          /\ session'.new = Append(session.new, call.instances[call.i])
          /\ session'.work = session.work
          /\ session'.txs = session.txs]_vars

\* An instance with a partly set key was staged and recorded behind an
\* instance with a full key that is still pending.
C19_Witness ==
    /\ Applying(SKIP_EXISTING)
    /\ call.i = 3
    /\ ~SomeUnset(call.instances[1])
    /\ PartialKey(call.instances[2])
    /\ session.new = call.instances
    /\ call.loaded = call.instances

\* The fixture the loop of the load is about to process returns nothing.
AtEmptyFixture ==
    /\ call.pc = "fixture"
    /\ call.idx <= Len(call.ordered)
    /\ ~Raises(get(registry, call.ordered[call.idx]).value.func)
    /\ Produce(get(registry, call.ordered[call.idx]).value.func) = <<>>

\* C20: the step that processes a fixture whose producer returns nothing
\* records the empty list under its name, leaves the session, its
\* transactions and the stored rows as they are, and moves on to the next
\* name of the resolved order; no transaction is ever begun for such a fixture.
C20_EmptyFixture ==
    [][/\ AtEmptyFixture
          => /\ call'.pc = "fixture"
             /\ call'.idx = call.idx + 1
             /\ call'.ordered = call.ordered
             /\ DOMAIN call'.results = DOMAIN call.results \cup {call.ordered[call.idx]}
             /\ call'.results[call.ordered[call.idx]] = <<>>
             /\ \A m \in DOMAIN call.results : call'.results[m] = call.results[m]
             /\ session' = session
             /\ db' = db
             /\ log' = Append(log, <<"produce", call.ordered[call.idx]>>)
       /\ \A p \in 1..Len(log') :
             log'[p][1] \in {"begin", "commit", "rollback"}
             => Produce(get(registry, log'[p][2]).value.func) # <<>>]_vars

\* A load returned an empty list for a fixture and the rows of a fixture
\* processed after it, for which alone a transaction was begun.
C20_Witness ==
    /\ ret.op \in Loads
    /\ ret.result.kind = "ok"
    /\ log = <<<<"produce", "c">>, <<"produce", "a">>, <<"begin", "a">>,
               <<"commit", "a">>>>
    /\ ret.result.value["c"] = <<>>
    /\ ret.result.value["a"] # <<>>

\* C21: the mapping a successful load_fixtures(*names) returns has as its
\* keys exactly the requested names and their transitive dependencies.
C21_KeysAreClosure ==
    (ret.op = "load_fixtures" /\ ret.result.kind = "ok")
    => DOMAIN ret.result.value = Closure(registry, Range(ret.args))

\* One name was requested and the mapping returned has three keys, that of
\* the requested fixture, which produced nothing, and those of its
\* dependencies.
C21_Witness ==
    /\ ret.op = "load_fixtures"
    /\ ret.result.kind = "ok"
    /\ ret.args = <<"c">>
    /\ DOMAIN ret.result.value = {"a", "b", "c"}
    /\ ret.result.value["c"] = <<>>
    /\ ret.result.value["b"] # <<>>

\* The place of a fixture in the registry.
PlaceIn(reg, f) == CHOOSE i \in 1..Len(reg) : reg[i] = f

\* C22: get_by_context returns the registered fixtures whose contexts
\* intersect the requested ones, each once and in the order of the registry,
\* whatever the order of the arguments, and no fixture tagged only with
\* contexts that were not requested.
C22_GetByContext ==
    ret.op = "get_by_context"
    => LET out == ret.result.value
           asked == Range(ret.args)
       IN /\ ret.result.kind = "ok"
          /\ Range(out) = {f \in Range(registry) : f.contexts \cap asked # {}}
          /\ \A i, j \in 1..Len(out) :
                i < j => PlaceIn(registry, out[i]) < PlaceIn(registry, out[j])
          /\ \A f \in Range(registry) : f.contexts \cap asked = {} => f \notin Range(out)
          /\ out = get_by_context(registry,
                       Range([i \in 1..Len(ret.args) |-> ret.args[Len(ret.args) + 1 - i]]))

\* testing alone was requested from a registry whose first fixture is tagged
\* base only: the fixtures returned do not include it.
C22_Witness ==
    /\ ret.op = "get_by_context"
    /\ ret.args = <<TESTING>>
    /\ Len(registry) = 3
    /\ registry[1].contexts = {BASE}
    /\ registry[3].contexts = {TESTING}
    /\ Len(ret.result.value) = 2
    /\ ret.result.value[1] = registry[2]
    /\ registry[2].contexts = {BASE, TESTING}

\* A call of register has returned: the name it files the fixture under.
RegisteredAs ==
    IF ret.args[2] = None THEN FuncName(ret.args[1]) ELSE ret.args[2]

\* C23: after register(fn, name=..., depends_on=..., contexts=...) the
\* registry holds, under the given name or else under the producer's own
\* identifier, a Fixture with that name, the producer, the given depends_on
\* (none when left out) and the given contexts (base alone when left out),
\* and the call returned the producer itself.
C23_RegisterStores ==
    ret.op = "register"
    => /\ ret.result.kind = "ok"
       /\ ret.result.value = ret.args[1]
       /\ Registered(registry, RegisteredAs)
       /\ get(registry, RegisteredAs).value.name = RegisteredAs
       /\ get(registry, RegisteredAs).value.func = ret.args[1]
       /\ get(registry, RegisteredAs).value.depends_on = ret.args[3]
       /\ get(registry, RegisteredAs).value.contexts
             = (IF ret.args[4] = {} THEN {BASE} ELSE ret.args[4])
       /\ Cardinality({i \in 1..Len(registry) : registry[i].name = RegisteredAs}) = 1

\* A producer was registered under an explicit name with a dependency and
\* two contexts, after another one registered bare.
C23_Witness ==
    /\ ret.op = "register"
    /\ ret.args = <<"b", "c", <<"a">>, {BASE, TESTING}>>
    /\ Len(registry) = 2
    /\ registry[1] = Fixture("a", "a", <<>>, {BASE})
    /\ registry[2] = Fixture("c", "b", <<"a">>, {BASE, TESTING})

\* C24: a registration under a name that is registered already raises
\* nothing and replaces the entry where it stands: the number of fixtures is
\* unchanged, get(name) gives the later producer, depends_on and contexts,
\* and the other entries are as before.
C24_RegisterReplaces ==
    [][(ret'.op = "register" /\ ret = NoCall)
       => LET key == IF ret'.args[2] = None THEN FuncName(ret'.args[1]) ELSE ret'.args[2]
          IN Registered(registry, key)
             => /\ ret'.result.kind = "ok"
                /\ Len(registry') = Len(registry)
                /\ get(registry', key).value.func = ret'.args[1]
                /\ get(registry', key).value.depends_on = ret'.args[3]
                /\ get(registry', key).value.contexts
                      = (IF ret'.args[4] = {} THEN {BASE} ELSE ret'.args[4])
                /\ \A i \in 1..Len(registry) :
                      IF registry[i].name = key
                      THEN registry'[i].name = key
                      ELSE registry'[i] = registry[i]]_vars

\* The fixture registered first, ahead of another one, now holds the
\* producer, dependency and context of the registration just made.
C24_Witness ==
    /\ ret.op = "register"
    /\ ret.args = <<"a2", None, <<"a">>, {TESTING}>>
    /\ Len(registry) = 2
    /\ registry[1] = Fixture("a", "a2", <<"a">>, {TESTING})

\* The transactions of the session that the engine opened.
EngineTxs(s) == {p \in 1..Len(s.txs) : s.txs[p].owner = "engine"}

\* How many events of a kind the call has logged for a fixture.
Events(kind, n) ==
    Cardinality({p \in 1..Len(log) : log[p] = <<kind, n>>})

\* C27: the engine has a transaction open exactly while it applies the
\* instances of a fixture, never two at a time, and that one is the innermost
\* of the session; a transaction begun is closed by the next event of the
\* call; a fixture is committed only when all its instances were applied; and
\* a load that returns has begun and committed one transaction for each
\* fixture whose producer returned instances and none for the others.
C27_OneTransactionPerFixture ==
    [][/\ Cardinality(EngineTxs(session)) = (IF call.pc = "apply" THEN 1 ELSE 0)
       /\ call.pc = "apply" => session.txs[Len(session.txs)].owner = "engine"
       /\ \A p \in 1..(Len(log) - 1) :
             log[p][1] = "begin"
             => log[p + 1] \in {<<"commit", log[p][2]>>, <<"rollback", log[p][2]>>}
       /\ \A n \in Names : Events("begin", n) <= 1
       /\ FixtureRecorded
          => /\ call.i = Len(call.instances) + 1
             /\ Len(session'.txs) = Len(session.txs) - 1
       /\ (ret.op \in Loads /\ ret.result.kind = "ok")
          => \A n \in DOMAIN ret.result.value :
                LET expected == IF Produce(get(registry, n).value.func) = <<>>
                                THEN 0 ELSE 1
                IN Events("begin", n) = expected /\ Events("commit", n) = expected]_vars

\* A load returned after two fixtures were committed one after the other
\* and a third, which produced nothing, had no transaction.
C27_Witness ==
    /\ ret.op \in Loads
    /\ ret.result.kind = "ok"
    /\ Events("commit", "a") = 1
    /\ Events("commit", "b") = 1
    /\ Events("produce", "c") = 1
    /\ Events("begin", "c") = 0

\* The registry without the fixtures whose name is not in S.
Restrict(reg, S) == SelectSeq(reg, LAMBDA f : f.name \in S)

\* A registered fixture outside S that lies on a cycle or names an
\* unregistered dependency.
BrokenOutside(reg, S) ==
    \E n \in Names \ S :
        /\ Registered(reg, n)
        /\ \/ n \in TransDeps(reg, n)
           \/ \E d \in DepsOf(reg, n) : ~Registered(reg, d)

\* C28: what resolve_dependencies returns or raises is what it returns or
\* raises on the registry cut down to the names reachable from the request,
\* and it returns whenever that part is acyclic and fully registered.
C28_OnlyReachablePart ==
    ret.op = "resolve_dependencies"
    => /\ ret.result
             = resolve_dependencies(
                   Restrict(registry, Closure(registry, Range(ret.args))), ret.args)
       /\ (/\ ~CycleReachable(registry, Range(ret.args))
           /\ FullyRegistered(registry, Range(ret.args)))
          => ret.result.kind = "ok"

\* A request was resolved on a registry that holds, out of its reach, a
\* fixture on a cycle or with an unregistered dependency.
C28_Witness ==
    /\ ret.op = "resolve_dependencies"
    /\ ret.result.kind = "ok"
    /\ Len(ret.result.value) = 2
    /\ BrokenOutside(registry, Closure(registry, Range(ret.args)))


\* --------------------------------------------------- the `fixtures load` CLI

\* typer.Exit(code)
Exit(code) == [kind |-> "Exit", value |-> None, name |-> None, code |-> code]

\* The option value is passed on as it was given.
cli_load_strategy_unchecked(strategy) ==
    [kind |-> "ok", value |-> strategy, name |-> None]

\* `load_strategy = LoadStrategy(strategy)` and its `except ValueError`.
cli_load_strategy(strategy) ==
    IF strategy \in LoadStrategy
    THEN [kind |-> "ok", value |-> strategy, name |-> None]
    ELSE Exit(1)

\* The flag is not looked at.
cli_dry_run_ignored(dry_run) == FALSE

\* `if dry_run:`
cli_dry_run(dry_run) == dry_run

\* `context_list = contexts if contexts else [Context.BASE]`
cli_context_list(contexts) == IF contexts = {} THEN {BASE} ELSE contexts

\* The loop that lists the fixtures: each producer is called and a line with
\* the name and the number of instances is printed.
cli_listing(reg, ordered) ==
    [p \in 1..(2 * Len(ordered)) |->
        LET name == ordered[(p + 1) \div 2]
            instances == Produce(get(reg, name).value.func)
        IN IF p % 2 = 1 THEN <<"produce", name>>
           ELSE <<"list", name, Len(instances)>>]

RECURSIVE cli_total(_, _)
\* `sum(len(items) for items in result.values())`
cli_total(result, names) ==
    IF names = {} THEN 0
    ELSE LET n == CHOOSE n \in names : TRUE
         IN Len(result[n]) + cli_total(result, names \ {n})

\* The `fixtures load` command, to the call of load_fixtures_by_context in
\* the session of the application's db context (or to its return when there
\* is nothing to load, for a dry run, or on an error).
CliLoad(contexts, strategy, dry_run) ==
    /\ call.pc = "idle"
    /\ ret = NoCall
    /\ LET context_list == cli_context_list(contexts)
           args == [contexts |-> contexts, dry_run |-> dry_run]
           load_strategy == cli_load_strategy(strategy)
           all_deps == context_deps(registry, context_list)
           orders == IF all_deps.kind = "ok" THEN Orders(all_deps.value) ELSE {<<>>}
           Done(result, events) ==
               /\ ret' = [op |-> "cli_load", args |-> args, strategy |-> strategy,
                          result |-> result]
               /\ call' = Idle
               /\ log' = events
               /\ UNCHANGED <<db, session>>
       IN IF load_strategy.kind # "ok"
          THEN Done(load_strategy, << <<"echo_err", "Invalid strategy">> >>)
          ELSE \E order \in orders, load_order \in orders :
               LET ordered == resolve_context_dependencies(registry, context_list, order)
                   loaded == resolve_context_dependencies(registry, context_list, load_order)
                   listing == << <<"echo", "Fixtures to load">> >>
                                  \o cli_listing(registry, ordered.value)
               IN IF ordered.kind # "ok" THEN Done(ordered, <<>>)
                  ELSE IF ordered.value = <<>>
                  THEN Done([kind |-> "ok", value |-> None, name |-> None],
                            << <<"echo", "No fixtures to load">> >>)
                  ELSE IF cli_dry_run(dry_run)
                  THEN Done([kind |-> "ok", value |-> None, name |-> None],
                            listing \o << <<"echo", "Dry run">> >>)
                  ELSE /\ ret' = NoCall
                       /\ log' = listing \o << <<"echo", "Loading">>,
                                              <<"open_session", "db_context">> >>
                       /\ session' = CleanSession(db)
                       /\ call' = [Idle EXCEPT !.pc = "fixture", !.op = "cli_load",
                                               !.args = args,
                                               !.strategy = load_strategy.value,
                                               !.ordered = loaded.value, !.idx = 1]
                       /\ UNCHANGED db
    /\ UNCHANGED registry

\* The `fixtures load` command after load_fixtures_by_context has returned:
\* the number of records is printed.
CliLoaded ==
    /\ ret.op = "cli_load"
    /\ ret.result.kind = "ok"
    /\ log # <<>>
    /\ log[Len(log)][1] # "echo"
    /\ log' = Append(log, <<"echo", "Loaded",
                            cli_total(ret.result.value, DOMAIN ret.result.value)>>)
    /\ UNCHANGED <<registry, ret, db, session, call>>

NextCli ==
    \/ \E contexts \in SUBSET Contexts, strategy \in Strategies, dry_run \in BOOLEAN :
          CliLoad(contexts, strategy, dry_run)
    \/ CliLoaded
    \/ Return
    \/ LoadReturn
    \/ LoadProduce
    \/ LoadEnter
    \/ LoadApply
    \/ LoadExit

SpecCli == Init /\ [][NextCli]_vars

\* The command is entered by this step.
CliEntered == call.pc = "idle" /\ ret = NoCall /\ (ret'.op = "cli_load" \/ call'.op = "cli_load")

\* The events of the database: a session opened, a producer of the load, a
\* transaction begun or ended.
StorageEvents(events) ==
    {p \in 1..Len(events) : events[p][1] \in {"open_session", "begin", "commit", "rollback"}}

\* C25: `fixtures load` with a --strategy that is none of merge, insert and
\* skip_existing ends at once with exit code 1 and the invalid-strategy
\* message as its only output: no context is resolved (it ends so on a
\* registry whose resolution would raise too), no producer is called, no
\* session is opened, the load engine is not entered and storage keeps its
\* rows.
C25_CliInvalidStrategy ==
    [][/\ call'.op = "cli_load" => call'.strategy \in LoadStrategy
       /\ (CliEntered /\ ret'.op = "cli_load" /\ ret'.strategy \notin LoadStrategy)
          => /\ ret'.result = Exit(1)
             /\ log' = << <<"echo_err", "Invalid strategy">> >>
             /\ call' = Idle
             /\ db' = db
             /\ session' = session
       /\ (CliEntered /\ ret'.op = "cli_load" /\ ret'.result.kind = "Exit")
          => ret'.strategy \notin LoadStrategy]_vars

\* The command has ended on an invalid strategy, on a registry on which the
\* resolution of the contexts raises and after an earlier run has stored rows.
C25_Witness ==
    /\ ret.op = "cli_load"
    /\ ret.strategy = "upsert"
    /\ ret.result = Exit(1)
    /\ context_deps(registry, cli_context_list(ret.args.contexts)).kind # "ok"
    /\ db # {}
    /\ log = << <<"echo_err", "Invalid strategy">> >>

\* C26: `fixtures load --dry-run` with a valid strategy prints one line for
\* each fixture the contexts resolve to, in an order of the resolution, with
\* the number of instances of its producer, and returns: no session is
\* opened, the load engine is not entered, no transaction is begun and
\* storage keeps its rows.
C26_CliDryRun ==
    [][/\ call'.op = "cli_load" => ~call'.args.dry_run
       /\ (CliEntered /\ ret'.op = "cli_load" /\ ret'.args.dry_run
             /\ ret'.strategy \in LoadStrategy /\ ret'.result.kind = "ok")
          => LET context_list == cli_context_list(ret'.args.contexts)
                 listed == SelectSeq(log', LAMBDA e : e[1] = "list")
             IN /\ call' = Idle
                /\ db' = db
                /\ session' = session
                /\ StorageEvents(log') = {}
                /\ \E order \in Orders(context_deps(registry, context_list).value) :
                      LET ordered == resolve_context_dependencies(registry, context_list, order).value
                      IN /\ Len(listed) = Len(ordered)
                         /\ \A p \in 1..Len(ordered) :
                               listed[p] = <<"list", ordered[p],
                                             Len(Produce(get(registry, ordered[p]).value.func))>>]_vars

\* A dry run has listed two fixtures, one of them with instances, after an
\* earlier run has stored rows.
C26_Witness ==
    /\ ret.op = "cli_load"
    /\ ret.args.dry_run
    /\ ret.result.kind = "ok"
    /\ db # {}
    /\ Len(SelectSeq(log, LAMBDA e : e[1] = "list")) >= 2
    /\ \E p \in 1..Len(log) : log[p][1] = "list" /\ log[p][3] > 0
    /\ log[Len(log)] = <<"echo", "Dry run">>


\* The step is one on which the fixture in progress fails: its producer
\* raises, or its transaction is rolled back.
FixtureFailing ==
    \/ /\ call.pc = "fixture"
       /\ call.idx <= Len(call.ordered)
       /\ Raises(get(registry, call.ordered[call.idx]).value.func)
       /\ log' # log
    \/ /\ call.pc = "apply"
       /\ log' = Append(log, <<"rollback", call.name>>)

\* The events logged for a fixture.
EventsIn(events, kind, n) == {p \in 1..Len(events) : events[p] = <<kind, n>>}

\* C29: when the producer of fixture k raises or a persistence error leaves
\* its transaction, the load ends on that step by raising (no mapping is
\* returned), its last event is about k, no event was logged for a fixture
\* after k in the load order, no fixture up to k had its producer called
\* twice or a second transaction, and nothing more is logged until the
\* caller makes another call.
C29_FailureStopsLoad ==
    [][/\ FixtureFailing
          => /\ call' = Idle
             /\ ret'.op = call.op
             /\ ret'.result.kind # "ok"
             /\ ret'.result.value = None
             /\ log'[Len(log')][2] = call.ordered[call.idx]
             /\ \A q \in (call.idx + 1)..Len(call.ordered) :
                   \A p \in 1..Len(log') : log'[p][2] # call.ordered[q]
             /\ \A q \in 1..call.idx :
                   /\ Cardinality(EventsIn(log', "produce", call.ordered[q])) = 1
                   /\ Cardinality(EventsIn(log', "begin", call.ordered[q])) <= 1
       /\ (call.pc = "idle" /\ log' # log) => log' = <<>>
       /\ (call.pc # "idle" /\ call'.pc = "idle" /\ ret'.result.kind = "ok")
          => ~FixtureFailing /\ call.idx > Len(call.ordered)]_vars

\* A load of three fixtures has raised from the producer of the second one,
\* after the first was processed and before the third was reached.
C29_Witness ==
    /\ ret.op \in Loads
    /\ ret.result.kind = "RuntimeError"
    /\ ret.result.name = "a"
    /\ Len(log) >= 2
    /\ log[Len(log)] = <<"produce", "a">>
    /\ log[1][2] # "a"
    /\ get(registry, "b").kind = "ok"
    /\ "a" \in Range(get(registry, "b").value.depends_on)
    /\ \A p \in 1..Len(log) : log[p][2] # "b"


\* C30: in one load call no fixture has its producer called twice or a second
\* transaction begun, and a load that returns has called the producer of
\* each fixture of the closure of the request exactly once and of no other
\* fixture, also for a name requested twice, a name both requested and a
\* dependency of a requested one, and a fixture reached along two paths.
C30_EachFixtureOnce ==
    /\ \A n \in Names : Events("produce", n) <= 1 /\ Events("begin", n) <= 1
    /\ (ret.op \in Loads /\ ret.result.kind = "ok")
       => \A n \in Names :
             Events("produce", n) =
                (IF n \in Closure(registry, Requested(registry, ret.op, ret.args))
                 THEN 1 ELSE 0)

\* A load of c and a has returned where c depends on a and on b and b depends
\* on a: a was requested and is reached along two paths, and its producer was
\* called once and one transaction was begun for it.
C30_Witness ==
    /\ ret.op = "load_fixtures"
    /\ ret.result.kind = "ok"
    /\ ret.args = <<"c", "a">>
    /\ get(registry, "c").value.depends_on = <<"a", "b">>
    /\ get(registry, "b").value.depends_on = <<"a">>
    /\ Events("produce", "a") = 1
    /\ Events("begin", "a") = 1
    /\ Events("commit", "a") = 1
    /\ Len(Produced) = 3

====
